---- MODULE Spec2Model ----
(***************************************************************************)
(* govh-renew-ip: startup and the driver loop of main, with ManageRecords  *)
(* and PollRecords (final variant of main.go), against an OVH zone and the *)
(* ipify resolver. Every provider or resolver call is one step of main;    *)
(* the signal goroutine and the environment (address, timer) run beside it.*)
(***************************************************************************)
EXTENDS Integers, Sequences, FiniteSets, TLC

(* ---------------------------------------------------------------- bounds *)

\* Record ids the zone can hold (1..MaxRec); a create on a full zone fails.
MaxRec == 2

\* Records in the zone before the process starts: at most MaxInit.
MaxInit == 1


(* ------------------------------------------------------------- constants *)

\* []string{"A", "AAAA"}: the families, in the order the loop ranges over them.
FieldTypes == <<"A", "AAAA">>

Families == 1..Len(FieldTypes)

\* The public addresses the host can have, per family. The IPv4 address changes; the IPv6
\* address is kept to one value, and the AAAA family reaches the update branch through
\* failed fetches.
Addrs(ft) == IF ft = "A" THEN {"192.0.2.1", "203.0.113.7"} ELSE {"2001:db8::1"}

\* (subdomain, ttl) of the records that exist in the zone before the process starts.
InitShapes == {<<"home", 300>>}

Ids == 1..MaxRec

(* ----------------------------------------------------------- environment *)

\* A string is the tuple of its characters; "" is <<>>.
EnvKeys == {"DOMAIN", "OVH_ENDPOINT", "OVH_APP_KEY", "OVH_APP_SECRET", "OVH_CONSUMER_KEY",
            "TIME_INTERVAL"}

\* The values each variable is started with: unset or empty (os.Getenv gives "" for
\* both), or set. The endpoint is one ovh.NewClient knows or one it rejects;
\* TIME_INTERVAL is a number of seconds, or text that is no number.
EnvValues(key) ==
    CASE key = "DOMAIN" -> {<<>>, <<"a", ".", "b">>}
      [] key = "OVH_ENDPOINT" -> {<<>>, <<"o", "v", "h", "-", "e", "u">>, <<"x">>}
      [] key = "TIME_INTERVAL" -> {<<>>, <<"x">>, <<"-">>, <<"1", "x">>, <<"0">>, <<"1">>}
      [] OTHER -> {<<>>, <<"k">>}

\* The endpoint names ovh.NewClient accepts.
KnownEndpoints == {<<"o", "v", "h", "-", "e", "u">>}

\* getEnv: the value of the variable, or an error when it is unset or empty.
\* Faulty variant: the empty value is accepted.
GetEnvAcceptsEmpty(value) == [value |-> value, err |-> FALSE]

GetEnv(value) == [value |-> value, err |-> value = <<>>]

DigitChars == <<"0", "1", "2", "3", "4", "5", "6", "7", "8", "9">>

IsDigit(c) == \E d \in DOMAIN DigitChars : DigitChars[d] = c
DigitVal(c) == (CHOOSE d \in DOMAIN DigitChars : DigitChars[d] = c) - 1

\* strconv.Atoi on the digits after the sign: base 10, every character a digit.
RECURSIVE ParseDigits(_, _)
ParseDigits(s, acc) ==
    IF s = <<>> THEN [n |-> acc, err |-> FALSE]
    ELSE IF ~IsDigit(Head(s)) THEN [n |-> 0, err |-> TRUE]
    ELSE ParseDigits(Tail(s), acc * 10 + DigitVal(Head(s)))

\* strconv.Atoi: an optional sign and at least one digit; anything else is an error.
Atoi(s) ==
    IF s = <<>> THEN [n |-> 0, err |-> TRUE]
    ELSE LET signed == Head(s) \in {"+", "-"}
             digits == IF signed THEN Tail(s) ELSE s
             r == ParseDigits(digits, 0)
         IN IF digits = <<>> \/ r.err THEN [n |-> 0, err |-> TRUE]
            ELSE [n |-> IF Head(s) = "-" THEN 0 - r.n ELSE r.n, err |-> FALSE]

\* ovh.NewClient: the client, or an error for an endpoint it does not know.
OvhNewClient(endpoint) == [err |-> endpoint \notin KnownEndpoints]

\* NewOVHClient: the four variables in order, then ovh.NewClient; the first error is
\* returned.
NewOVHClient(e) ==
    [err |-> \/ GetEnv(e["OVH_ENDPOINT"]).err
             \/ GetEnv(e["OVH_APP_KEY"]).err
             \/ GetEnv(e["OVH_APP_SECRET"]).err
             \/ GetEnv(e["OVH_CONSUMER_KEY"]).err
             \/ OvhNewClient(GetEnv(e["OVH_ENDPOINT"]).value).err]

(* --------------------------------------------------------------- records *)

\* NewRecord: the record struct sent to and received from the provider.
NewRecord(fieldType, subDomain, target, ttl) ==
    [FieldType |-> fieldType, Subdomain |-> subDomain, Target |-> target, Ttl |-> ttl]

\* record{}: Go's zero value.
ZeroRecord == NewRecord("", "", "", 0)

\* Faulty variant: the id of the record is not kept.
RecAndIDWithoutId(rec, id) ==
    [FieldType |-> rec.FieldType, Subdomain |-> rec.Subdomain, Target |-> rec.Target,
     Ttl |-> rec.Ttl, Id |-> 0]

\* recAndID literal built in PollRecords.
RecAndID(rec, id) ==
    [FieldType |-> rec.FieldType, Subdomain |-> rec.Subdomain, Target |-> rec.Target,
     Ttl |-> rec.Ttl, Id |-> id]

VARIABLES
    env,           \* the process environment: variable name -> value
    domain,        \* var domain string
    zone,          \* provider: record id -> record, for the ids that exist
    stable,        \* environment: from now on the address is constant and no call fails
    fixedIP,       \* environment: once stable, the host's address per field type
    gpc,           \* signal goroutine: "recv" (blocked on <-sigs) or "done" (returned)
    cancelled,     \* ctx.Done() is closed
    timeInterval,  \* TIME_INTERVAL as parsed
    pc,            \* driver position
    fam,           \* index into FieldTypes of the family being processed
    pubIP,         \* address resolved for the current pass
    recordsIDs,    \* PollRecords: ids returned by the listing
    idx,           \* PollRecords: position in recordsIDs
    records,       \* PollRecords: matching records so far
    uidx,          \* ManageRecords: position in previous (update loop)
    previousRecs,  \* field type -> tracked records
    calls,         \* history: calls issued by the current pass, in order
    zoneStart,     \* history: the zone when the current pass started
    listed,        \* history: the ids the listing of the current pass returned
    passFam,       \* history: family of the pass that calls belongs to
    outcome,       \* history: per family, how its iteration of this tick ended
    returned,      \* history: per family, the records ManageRecords returned in this tick
    tickStart,     \* history: previousRecs when the tick started
    created,       \* history: field type -> this process has created a record of it
    tracked,       \* history: field type -> its tracked state has been non-empty
    recording,     \* history: whether lastMade is kept
    lastMade,      \* history: field type -> id and target created by its latest pass
    madeStart,     \* history: lastMade when the tick started
    pubIPv4,       \* earlier main (src/main.go): address resolved once, before the loop
    pubIPv6,       \* earlier main: the same for the AAAA records
    IPs,           \* earlier PollRecords: targets fetched so far
    tickerC        \* earlier main: a tick is waiting in ticker.C

vars == <<env, domain, zone, stable, fixedIP, gpc, cancelled, timeInterval, pc, fam, pubIP,
          recordsIDs, idx, records, uidx, previousRecs, calls, zoneStart, listed,
          passFam, outcome, returned, tickStart, created, tracked,
          recording, lastMade, madeStart, pubIPv4, pubIPv6, IPs, tickerC>>

cfgVars == <<env, domain, timeInterval, recording>>

envVars == <<stable, fixedIP>>
earlyVars == <<pubIPv4, pubIPv6, IPs, tickerC>>
sigVars == <<gpc, cancelled>>
passVars == <<pubIP, recordsIDs, idx, records, uidx>>
madeVars == <<created, lastMade>>
histVars == <<calls, zoneStart, listed, passFam, outcome, returned, tickStart, madeStart>>

(* ------------------------------------------------------------ call log  *)

Call(op, id, rec, ok) == [op |-> op, id |-> id, rec |-> rec, ok |-> ok]

\* The entries of the log s made by operation op, in order.
RECURSIVE OfOp(_, _)
OfOp(s, op) ==
    IF s = <<>> THEN <<>>
    ELSE IF Head(s).op = op THEN <<Head(s)>> \o OfOp(Tail(s), op)
    ELSE OfOp(Tail(s), op)

(* ------------------------------------------------------- pure functions *)

\* What api.ipify.org / api6.ipify.org can answer for a host whose address is addr.
Responses(addr) ==
    { [transport |-> t, status |-> st, decodes |-> d, ip |-> i] :
        t \in BOOLEAN, st \in {200, 500}, d \in BOOLEAN, i \in {"", addr} }

\* Faulty variant: the "ip" field of the decoded body is returned without looking at it.
GetPublicIPUnchecked(resp) ==
    IF ~resp.transport THEN [ip |-> "", err |-> TRUE]
    ELSE IF resp.status # 200 THEN [ip |-> "", err |-> TRUE]
    ELSE IF ~resp.decodes THEN [ip |-> "", err |-> TRUE]
    ELSE [ip |-> resp.ip, err |-> FALSE]

\* getPublicIP, from the HTTP exchange resp: <<ip, err>> as [ip, err].
GetPublicIP(resp) ==
    IF ~resp.transport THEN [ip |-> "", err |-> TRUE]
    ELSE IF resp.status # 200 THEN [ip |-> "", err |-> TRUE]
    ELSE IF ~resp.decodes THEN [ip |-> "", err |-> TRUE]
    ELSE IF resp.ip = "" THEN [ip |-> "", err |-> TRUE]
    ELSE [ip |-> resp.ip, err |-> FALSE]

\* The set S of ids as an ascending sequence.
RECURSIVE Ascending(_)
Ascending(S) ==
    IF S = {} THEN <<>>
    ELSE LET m == CHOOSE x \in S : \A y \in S : x <= y
         IN <<m>> \o Ascending(S \ {m})

\* GET /domain/zone/{domain}/record?fieldType=ft: the ids of the records of that type.
ListRecordIDs(z, ft) == Ascending({i \in DOMAIN z : z[i].FieldType = ft})

\* IDToRecord: the record behind id, or record{} and an error.
IDToRecord(z, id, ok) ==
    IF ok THEN [rec |-> z[id], err |-> FALSE] ELSE [rec |-> ZeroRecord, err |-> TRUE]

\* Faulty variant: the filter on the target is lost.
MatchesAny(rec, ip) == TRUE

\* PollRecords' filter: rec.Target == pubIP.
Matches(rec, ip) == rec.Target = ip

\* One iteration of PollRecords' loop over recordsIDs: recs after looking at id.
PollStep(recs, id, got, ip) ==
    IF got.err THEN recs
    ELSE IF Matches(got.rec, ip) THEN Append(recs, RecAndID(got.rec, id))
    ELSE recs

\* Faulty variant: len(previous) is looked at first, so tracked records are updated even when
\* a matching record was found.
BranchOnPreviousFirst(recs, previous) ==
    IF Len(previous) = 0
    THEN IF Len(recs) = 0 THEN "create" ELSE "adopt"
    ELSE "update"

\* ManageRecords' branching on len(records) and len(previous).
Branch(recs, previous) ==
    IF Len(recs) = 0
    THEN IF Len(previous) = 0 THEN "create" ELSE "update"
    ELSE "adopt"

\* Faulty variant: the new record is created under a subdomain.
CreateRecWww(fieldType, ip) == NewRecord(fieldType, "www", ip, 0)

\* The record ManageRecords posts in the create branch.
CreateRec(fieldType, ip) == NewRecord(fieldType, "", ip, 0)

\* Faulty variant: the update resets the ttl.
UpdateRecDefaultTtl(prev, ip) == NewRecord(prev.FieldType, prev.Subdomain, ip, 0)

\* Faulty variant: the update sends the cached target back.
UpdateRecKeepTarget(prev, ip) == NewRecord(prev.FieldType, prev.Subdomain, prev.Target, prev.Ttl)

\* Faulty variant: the update is sent with the type of the first family.
UpdateRecAsA(prev, ip) == NewRecord("A", prev.Subdomain, ip, prev.Ttl)

\* The record ManageRecords puts for prev in the update branch.
UpdateRec(prev, ip) == NewRecord(prev.FieldType, prev.Subdomain, ip, prev.Ttl)

\* The zone z with record rec stored under id.
Put(z, id, rec) == [i \in DOMAIN z \cup {id} |-> IF i = id THEN rec ELSE z[i]]

(* ------------------------------------------------------------ the loop  *)

\* Where the range loop over FieldTypes goes after the iteration of family f.
LoopNext(f) ==
    IF f < Len(FieldTypes) THEN [pc |-> "resolve", fam |-> f + 1]
    ELSE [pc |-> "select", fam |-> 1]

\* Faulty variant: `break` instead of `continue`.
OnFailureBreak(f) == [pc |-> "select", fam |-> 1]

\* Faulty variant: log.Fatal instead of log.Error.
OnFailureFatal(f) == [pc |-> "stopped", fam |-> f]

\* Faulty variant: the failed family is tried again at once.
OnFailureRetry(f) == [pc |-> "resolve", fam |-> f]

\* `continue` after a failed getPublicIP or ManageRecords.
OnFailure(f) == LoopNext(f)

\* Faulty variant: the context is watched everywhere, so a cancellation aborts the tick.
OnCancelAnywhere(p) == IF p = "stopped" THEN p ELSE "closing"

\* Where cancel() leaves a driver that is at position p: only `case <-ctx.Done()` of
\* the select looks at the context.
OnCancel(p) == IF p = "wait" THEN "closing" ELSE p

\* Faulty variant: the result is stored without looking at err.
StoreAlways(old, res, err) == res

\* What main stores for a family after ManageRecords returned (res, err).
StoreBack(old, res, err) == IF err THEN old ELSE res

\* Faulty variant: PostNewRecord drops the error of RefreshZone.
RefreshErrIgnored(refreshOk) == FALSE

\* PostNewRecord's result when its zone refresh failed.
RefreshErrInCreate(refreshOk) == ~refreshOk

NoOutcome == [f \in Families |-> "none"]
NoReturn == [f \in Families |-> <<>>]

\* fieldType of the iteration in progress, and the previous slice passed to ManageRecords.
fieldType == FieldTypes[fam]
Previous == previousRecs[fieldType]

TypeSet == {FieldTypes[f] : f \in Families}

\* The records an operator may have put in the zone before the process starts.
InitRecords ==
    UNION { { NewRecord(t, sh[1], a, sh[2]) : sh \in InitShapes, a \in Addrs(t) } : t \in TypeSet }

NoAddress == [t \in TypeSet |-> ""]

\* No record created: the ids of records start at 1.
NoMade == [id |-> 0, ip |-> ""]
NoneMade == [t \in TypeSet |-> NoMade]

\* main has started the signal goroutine and is about to read DOMAIN. The variables
\* main declares later hold their first values (previousRecs: both slices empty).
\* keep: whether the run records which record each pass created.
Start(keep) ==
    /\ recording = keep
    /\ env \in { e \in [EnvKeys -> UNION {EnvValues(k) : k \in EnvKeys}] :
                    \A k \in EnvKeys : e[k] \in EnvValues(k) }
    /\ domain = <<>>
    /\ zone \in UNION { [1..n -> InitRecords] : n \in 0..MaxInit }
    /\ stable = FALSE /\ fixedIP = NoAddress
    /\ gpc = "recv" /\ cancelled = FALSE
    /\ timeInterval = 0
    /\ pc = "getDomain" /\ fam = 1
    /\ pubIP = "" /\ recordsIDs = <<>> /\ idx = 1 /\ records = <<>> /\ uidx = 1
    /\ previousRecs = [t \in TypeSet |-> <<>>]
    /\ calls = <<>> /\ zoneStart = <<>> /\ listed = <<>>
    /\ passFam = 1 /\ outcome = NoOutcome /\ returned = NoReturn
    /\ tickStart = [t \in TypeSet |-> <<>>]
    /\ created = [t \in TypeSet |-> FALSE] /\ tracked = [t \in TypeSet |-> FALSE]
    /\ lastMade = NoneMade /\ madeStart = NoneMade
    /\ pubIPv4 = "" /\ pubIPv6 = "" /\ IPs = <<>> /\ tickerC = FALSE

Init == Start(FALSE)

(* ---------------------------------------------------------- environment *)

\* The id the provider gives the next record it creates, if the zone has room.
FreeIds == {i \in Ids : i = Cardinality(DOMAIN zone) + 1}

\* A record of type t with target a is in the zone z.
Published(z, t, a) == \E i \in DOMAIN z : z[i].FieldType = t /\ z[i].Target = a

\* From a tick boundary on, the host keeps the addresses ips and every call succeeds
\* (the zone has room for the records that will have to be created).
Stabilise ==
    /\ ~stable
    /\ pc \in {"select", "wait"}
    /\ \E ips \in { p \in [TypeSet -> UNION {Addrs(t) : t \in TypeSet}] :
                      \A t \in TypeSet : p[t] \in Addrs(t) } :
          /\ Cardinality({t \in TypeSet : previousRecs[t] = <<>> /\ ~Published(zone, t, ips[t])})
                <= MaxRec - Cardinality(DOMAIN zone)
          /\ fixedIP' = ips
    /\ stable' = TRUE
    /\ UNCHANGED <<zone, sigVars, cfgVars, madeVars, pc, fam, passVars, previousRecs, tracked,
                   histVars, earlyVars>>

\* Whether a call may fail now.
MayFail == ~stable

\* The addresses the host may have when the resolver is asked for type t.
CurrentAddrs(t) == IF stable THEN {fixedIP[t]} ELSE Addrs(t)

(* ----------------------------------------------------- signal goroutine *)

\* Faulty variant: the handler also drops the tracked state.
SigHandlerResetsState ==
    /\ gpc = "recv"
    /\ pc \notin {"fatal", "stopped"}
    /\ gpc' = "done" /\ cancelled' = TRUE
    /\ pc' = IF pc = "wait" THEN "closing" ELSE pc
    /\ previousRecs' = [t \in DOMAIN previousRecs |-> <<>>]
    /\ UNCHANGED <<zone, envVars, earlyVars, cfgVars, madeVars, fam, passVars, tracked, histVars>>

\* go func() { sig := <-sigs; log; cancel() }, run when SIGINT or SIGTERM is
\* delivered on sigs: closing ctx.Done() wakes a driver blocked in the select on the
\* ctx.Done() case.
SigHandler ==
    /\ gpc = "recv"
    /\ pc \notin {"fatal", "stopped"}
    /\ gpc' = "done" /\ cancelled' = TRUE
    /\ pc' = OnCancel(pc)
    /\ UNCHANGED <<zone, envVars, earlyVars, cfgVars, madeVars, fam, passVars, previousRecs, tracked, histVars>>

(* -------------------------------------------------------------- startup *)

\* log.Fatal(): the message is logged and the process exits with status 1.
Fatal ==
    /\ pc' = "fatal"
    /\ UNCHANGED <<domain, timeInterval, calls>>

\* domain, err = getEnv("DOMAIN")
GetDomain ==
    /\ pc = "getDomain"
    /\ LET r == GetEnv(env["DOMAIN"]) IN
       IF r.err THEN Fatal
       ELSE /\ domain' = r.value
            /\ pc' = "newClient"
            /\ UNCHANGED <<timeInterval, calls>>
    /\ UNCHANGED <<env, recording, zone, envVars, earlyVars, sigVars, fam, passVars, previousRecs,
                   tracked, madeVars,
                   zoneStart, listed, passFam, outcome, returned, tickStart, madeStart>>

\* client, err := NewOVHClient()
NewClient ==
    /\ pc = "newClient"
    /\ IF NewOVHClient(env).err THEN Fatal
       ELSE /\ pc' = "connAttempt"
            /\ UNCHANGED <<domain, timeInterval, calls>>
    /\ UNCHANGED <<env, recording, zone, envVars, earlyVars, sigVars, fam, passVars, previousRecs,
                   tracked, madeVars,
                   zoneStart, listed, passFam, outcome, returned, tickStart, madeStart>>

\* err = ConnAttempt(client): GET /me.
ConnAttempt ==
    /\ pc = "connAttempt"
    /\ \E ok \in BOOLEAN :
          /\ calls' = Append(calls, Call("me", 0, ZeroRecord, ok))
          /\ pc' = IF ok THEN "getInterval" ELSE "fatal"
    /\ UNCHANGED <<cfgVars, zone, envVars, earlyVars, sigVars, fam, passVars,
                   previousRecs, tracked, madeVars,
                   zoneStart, listed, passFam, outcome, returned, tickStart, madeStart>>

\* interval, err := getEnv("TIME_INTERVAL"); timeInterval, err := strconv.Atoi(interval);
\* the loop is entered.
GetInterval ==
    /\ pc = "getInterval"
    /\ LET r == GetEnv(env["TIME_INTERVAL"])
           a == Atoi(r.value)
       IN
       IF r.err \/ a.err THEN Fatal
       ELSE /\ timeInterval' = a.n
            /\ pc' = "select"
            /\ UNCHANGED <<domain, calls>>
    /\ UNCHANGED <<env, recording, zone, envVars, earlyVars, sigVars, fam, passVars, previousRecs,
                   tracked, madeVars,
                   zoneStart, listed, passFam, outcome, returned, tickStart, madeStart>>

Startup == GetDomain \/ NewClient \/ ConnAttempt \/ GetInterval

(* --------------------------------------------------------------- driver *)

\* The locals of PollRecords and ManageRecords go out of scope.
ClearPass ==
    /\ pubIP' = "" /\ recordsIDs' = <<>> /\ idx' = 1 /\ records' = <<>> /\ uidx' = 1

ClearHist ==
    /\ calls' = <<>> /\ zoneStart' = <<>> /\ listed' = <<>>
    /\ passFam' = 1 /\ outcome' = NoOutcome /\ returned' = NoReturn
    /\ tickStart' = [t \in TypeSet |-> <<>>] /\ madeStart' = NoneMade

\* case <-time.After(...): the for loop over the families starts.
StartTick ==
    /\ pc' = "resolve" /\ fam' = 1
    /\ ClearPass
    /\ calls' = <<>> /\ zoneStart' = <<>> /\ listed' = <<>>
    /\ passFam' = 1 /\ outcome' = NoOutcome /\ returned' = NoReturn
    /\ tickStart' = previousRecs /\ madeStart' = lastMade
    /\ UNCHANGED <<zone, envVars, earlyVars, sigVars, cfgVars, madeVars, previousRecs, tracked>>

\* select, polled with ctx.Done() closed: the ctx.Done() case.
SelectDone ==
    /\ pc = "select" /\ cancelled
    /\ pc' = "closing"
    /\ ClearPass /\ ClearHist
    /\ UNCHANGED <<zone, envVars, earlyVars, sigVars, cfgVars, madeVars, fam, previousRecs, tracked>>

\* select, polled with the timer of a non-positive interval already expired.
SelectTick ==
    /\ pc = "select" /\ timeInterval <= 0
    /\ StartTick

\* select, polled with ctx.Done() open: the driver blocks.
SelectBlock ==
    /\ pc = "select" /\ ~cancelled
    /\ pc' = "wait"
    /\ ClearPass /\ ClearHist
    /\ UNCHANGED <<zone, envVars, earlyVars, sigVars, cfgVars, madeVars, fam, previousRecs, tracked>>

\* The timer fires while the driver is blocked in the select.
TimerFire ==
    /\ pc = "wait"
    /\ StartTick

\* log "Closing program"; return.
Close ==
    /\ pc = "closing"
    /\ pc' = "stopped"
    /\ UNCHANGED <<zone, envVars, earlyVars, sigVars, cfgVars, madeVars, fam, passVars, previousRecs, tracked, histVars>>

\* The iteration of family fam ends on a failed getPublicIP.
FailIteration(how) ==
    /\ outcome' = [outcome EXCEPT ![fam] = how]
    /\ pc' = OnFailure(fam).pc /\ fam' = OnFailure(fam).fam
    /\ UNCHANGED <<previousRecs, tracked, returned, tickStart, madeStart>>

\* ManageRecords returned (res, nil) or (nil, err), and main stores the result.
Return(res, err) ==
    /\ returned' = [returned EXCEPT ![fam] = res]
    /\ previousRecs' = [previousRecs EXCEPT ![fieldType] = StoreBack(Previous, res, err)]
    /\ tracked' = [tracked EXCEPT ![fieldType] = @ \/ StoreBack(Previous, res, err) # <<>>]
    /\ outcome' = [outcome EXCEPT ![fam] = IF err THEN "managefail" ELSE "ok"]
    /\ pc' = (IF err THEN OnFailure(fam) ELSE LoopNext(fam)).pc
    /\ fam' = (IF err THEN OnFailure(fam) ELSE LoopNext(fam)).fam
    /\ ClearPass
    /\ UNCHANGED <<tickStart, madeStart>>

Continue == UNCHANGED <<fam, outcome, previousRecs, tracked, returned, tickStart, madeStart>>

\* pubIP, err := getPublicIP(fieldType == "AAAA")
Resolve ==
    /\ pc = "resolve"
    /\ \E r \in UNION { {GetPublicIP(resp) : resp \in Responses(addr)} :
                           addr \in CurrentAddrs(fieldType) } :
          /\ r.err => MayFail
          /\ passFam' = fam
          /\ calls' = <<Call("resolve", 0, NewRecord(fieldType, "", r.ip, 0), ~r.err)>>
          /\ zoneStart' = zone /\ listed' = <<>>
          /\ recordsIDs' = <<>> /\ idx' = 1 /\ records' = <<>> /\ uidx' = 1
          /\ IF r.err
             THEN /\ pubIP' = ""
                  /\ FailIteration("noaddress")
                  /\ UNCHANGED lastMade
             ELSE /\ pubIP' = r.ip
                  /\ pc' = "list"
                  /\ lastMade' = [lastMade EXCEPT ![fieldType] = NoMade]
                  /\ Continue
    /\ UNCHANGED <<zone, envVars, earlyVars, sigVars, cfgVars, created>>

\* After PollRecords returned recs: ManageRecords up to its next provider call.
AfterPoll(recs) ==
    LET b == Branch(recs, Previous) IN
    IF b = "adopt" THEN Return(recs, FALSE)
    ELSE /\ pc' = b
         /\ pubIP' = pubIP /\ recordsIDs' = <<>> /\ idx' = 1 /\ records' = <<>> /\ uidx' = 1
         /\ Continue

\* PollRecords: the listing call.
List ==
    /\ pc = "list"
    /\ \E ok \in BOOLEAN :
          /\ ~ok => MayFail
          /\ calls' = Append(calls, Call("list", 0, NewRecord(fieldType, "", "", 0), ok))
          /\ listed' = IF ok THEN ListRecordIDs(zone, fieldType) ELSE <<>>
          /\ IF ~ok
             THEN Return(<<>>, TRUE)
             ELSE LET ids == ListRecordIDs(zone, fieldType) IN
                  IF ids = <<>> THEN AfterPoll(<<>>)
                  ELSE /\ pc' = "fetch"
                       /\ recordsIDs' = ids /\ idx' = 1 /\ records' = <<>>
                       /\ UNCHANGED <<pubIP, uidx>>
                       /\ Continue
    /\ UNCHANGED <<zone, envVars, earlyVars, sigVars, cfgVars, madeVars, passFam, zoneStart>>

\* PollRecords: IDToRecord for recordsIDs[idx] and the filter on its target.
Fetch ==
    /\ pc = "fetch"
    /\ \E ok \in BOOLEAN :
          LET id == recordsIDs[idx]
              got == IDToRecord(zone, id, ok)
              recs == PollStep(records, id, got, pubIP)
          IN
          /\ ~ok => MayFail
          /\ calls' = Append(calls, Call("fetch", id, got.rec, ok))
          /\ IF idx < Len(recordsIDs)
             THEN /\ records' = recs /\ idx' = idx + 1
                  /\ UNCHANGED <<pc, pubIP, recordsIDs, uidx>>
                  /\ Continue
             ELSE AfterPoll(recs)
    /\ UNCHANGED <<zone, envVars, earlyVars, sigVars, cfgVars, madeVars, passFam, zoneStart, listed>>

\* PostNewRecord: the POST of the new record.
Create ==
    /\ pc = "create"
    /\ LET rec == CreateRec(fieldType, pubIP) IN
       \/ /\ MayFail \/ FreeIds = {}
          /\ calls' = Append(calls, Call("create", 0, rec, FALSE))
          /\ Return(<<>>, TRUE)
          /\ UNCHANGED <<zone, madeVars>>
       \/ \E id \in FreeIds :
          /\ calls' = Append(calls, Call("create", 0, rec, TRUE))
          /\ zone' = Put(zone, id, rec)
          /\ created' = [created EXCEPT ![fieldType] = TRUE]
          /\ lastMade' = IF recording
                          THEN [lastMade EXCEPT ![fieldType] = [id |-> id, ip |-> pubIP]]
                          ELSE lastMade
          /\ pc' = "refreshC"
          /\ UNCHANGED passVars
          /\ Continue
    /\ UNCHANGED <<envVars, earlyVars, sigVars, cfgVars, passFam, zoneStart, listed>>

\* PostNewRecord: RefreshZone after the POST, and ManageRecords' return.
RefreshAfterCreate ==
    /\ pc = "refreshC"
    /\ \E ok \in BOOLEAN :
          /\ ~ok => MayFail
          /\ calls' = Append(calls, Call("refresh", 0, ZeroRecord, ok))
          /\ IF RefreshErrInCreate(ok) THEN Return(<<>>, TRUE) ELSE Return(Previous, FALSE)
    /\ UNCHANGED <<zone, envVars, earlyVars, sigVars, cfgVars, madeVars, passFam, zoneStart, listed>>

\* UpdateRecord for previous[uidx].
Update ==
    /\ pc = "update"
    /\ \E ok \in BOOLEAN :
          LET prev == Previous[uidx]
              rec == UpdateRec(prev, pubIP)
          IN
          /\ ~ok => MayFail
          /\ calls' = Append(calls, Call("update", prev.Id, rec, ok))
          /\ zone' = IF ok THEN Put(zone, prev.Id, rec) ELSE zone
          /\ uidx' = uidx + 1
          /\ pc' = IF uidx < Len(Previous) THEN "update" ELSE "refreshU"
    /\ UNCHANGED <<envVars, earlyVars, sigVars, cfgVars, madeVars, pubIP, recordsIDs, idx, records, passFam,
                   zoneStart, listed>>
    /\ Continue

\* RefreshZone after the update loop, and ManageRecords' return.
RefreshAfterUpdate ==
    /\ pc = "refreshU"
    /\ \E ok \in BOOLEAN :
          /\ ~ok => MayFail
          /\ calls' = Append(calls, Call("refresh", 0, ZeroRecord, ok))
          /\ Return(Previous, FALSE)
    /\ UNCHANGED <<zone, envVars, earlyVars, sigVars, cfgVars, madeVars, passFam, zoneStart, listed>>

Driver ==
    \/ SelectDone \/ SelectTick \/ SelectBlock \/ Close
    \/ Resolve \/ List \/ Fetch \/ Create \/ RefreshAfterCreate \/ Update \/ RefreshAfterUpdate

Program == SigHandler \/ TimerFire \/ Startup \/ Driver

Next == Program

Spec == Init /\ [][Next]_vars

\* The same program, with the record each pass created kept in lastMade.
PickupSpec == Start(TRUE) /\ [][Next]_vars

\* The program with the scheduling the Go runtime gives: main and the driver keep
\* running (every call returns), the timer of time.After fires, and a select with
\* several ready cases picks each of them sooner or later (uniform random choice).
CancelSpec ==
    /\ Init /\ [][Next]_vars
    /\ WF_vars(Startup) /\ WF_vars(Driver) /\ WF_vars(TimerFire) /\ SF_vars(SelectDone)

\* The program under the hypothesis that the environment settles at some tick.
NextSettling == Program \/ Stabilise

\* The same, with the scheduling the Go runtime gives: the driver goroutine keeps
\* running (every call returns) and the timer of time.After fires.
LiveSpec == Init /\ [][NextSettling]_vars /\ WF_vars(Driver) /\ WF_vars(TimerFire)

(* ------------------------------------------------- reading the call log *)

\* The pass that calls belongs to has ended (its iteration of the range loop is over).
PassDone == calls # <<>> /\ outcome[passFam] # "none"

\* ManageRecords was called in that pass (the resolver gave an address).
Managed == PassDone /\ Len(calls) >= 2

PassType == FieldTypes[passFam]
PassIP == calls[1].rec.Target
PassPrevious == tickStart[PassType]
PassResult == returned[passFam]
PassErr == outcome[passFam] = "managefail"

ListOk == Managed /\ calls[2].op = "list" /\ calls[2].ok

Count(op) == Len(OfOp(calls, op))

Failed(op) == \E k \in 1..Len(calls) : calls[k].op = op /\ ~calls[k].ok

\* Some record fetched successfully in the pass has the pass's address as target.
FetchedMatch == \E k \in 1..Len(calls) :
    calls[k].op = "fetch" /\ calls[k].ok /\ calls[k].rec.Target = PassIP

\* The positions k of the listing lst whose record, as it was in the zone z, was
\* fetched successfully (oks[k]) and has target ip: the records, with their listed ids.
MatchingOf(z, lst, oks, ip) ==
    LET hit == SelectSeq([k \in 1..Len(oks) |-> k],
                         LAMBDA k : oks[k] /\ z[lst[k]].Target = ip)
    IN [j \in 1..Len(hit) |->
          [FieldType |-> z[lst[hit[j]]].FieldType, Subdomain |-> z[lst[hit[j]]].Subdomain,
           Target |-> z[lst[hit[j]]].Target, Ttl |-> z[lst[hit[j]]].Ttl, Id |-> lst[hit[j]]]]

FetchOks == [k \in 1..Count("fetch") |-> OfOp(calls, "fetch")[k].ok]
FetchIds == [k \in 1..Count("fetch") |-> OfOp(calls, "fetch")[k].id]

(* ------------------------------------------------------------------ C1  *)

Mutating(log) == \E k \in 1..Len(log) : log[k].op \in {"create", "update", "refresh"}

\* Family f has converged: a record of its type carries the address the host keeps, its
\* tracked state is non-empty, and its pass, if it is the one in the log, has issued no
\* create, update or refresh call.
Settled(f) ==
    /\ stable
    /\ Published(zone, FieldTypes[f], fixedIP[FieldTypes[f]])
    /\ previousRecs[FieldTypes[f]] # <<>>
    /\ ~(passFam = f /\ Mutating(calls))

\* C1: once the addresses stay constant and every call succeeds, every family eventually
\* converges (unless the loop is cancelled first): a record of its type has the address
\* as target and its tracked state is non-empty; from then on this stays so and no pass
\* of the family issues a create, update or refresh call.
C1_Convergence ==
    /\ stable ~> (cancelled \/ \A f \in Families : Settled(f))
    /\ [][\A f \in Families : Settled(f) => Settled(f)']_vars

\* Both families have converged, the A family on a record that was first tracked with
\* another address (it converged through the update branch).
C1_Witness ==
    /\ ~cancelled /\ pc = "select"
    /\ \A f \in Families : Settled(f) /\ outcome[f] = "ok"
    /\ \E k \in 1..Len(previousRecs["A"]) : previousRecs["A"][k].Subdomain = "home"
    /\ previousRecs["A"] # tickStart["A"]

(* ------------------------------------------------------------------ C2  *)

\* C2 as stated: a pass of ManageRecords (its listing succeeding) on a family whose
\* address is the target of a record of its type in the zone issues no create, update
\* or refresh call and returns exactly the matching records of the zone, whatever the
\* individual fetches answer.
C2_IdempotentWhateverFetchesDo ==
    (ListOk /\ Published(zoneStart, PassType, PassIP)) =>
        /\ Count("create") = 0 /\ Count("update") = 0 /\ Count("refresh") = 0
        /\ ~PassErr
        /\ PassResult = MatchingOf(zoneStart, listed, [k \in 1..Len(listed) |-> TRUE], PassIP)

\* C2 amended: a pass whose listing succeeds and that fetches successfully at least one
\* record whose target is the current address issues no create, update or refresh
\* call and returns, without error, exactly the successfully fetched matching records.
C2_IdempotentOnFetchedMatch ==
    (ListOk /\ FetchedMatch) =>
        /\ Count("create") = 0 /\ Count("update") = 0 /\ Count("refresh") = 0
        /\ ~PassErr
        /\ FetchIds = listed
        /\ PassResult = MatchingOf(zoneStart, listed, FetchOks, PassIP)
        /\ previousRecs[PassType] = PassResult
        /\ zone = zoneStart

\* A pass adopted one matching record although the fetch of another record failed.
C2_Witness ==
    /\ ListOk /\ FetchedMatch /\ Failed("fetch")
    /\ Len(PassResult) = 1 /\ PassResult # PassPrevious

(* ------------------------------------------------------------------ C3  *)

\* C3: listing succeeded, no fetched record matches and previous is non-empty: one
\* update call per record of previous, in order, addressed by its id and carrying the
\* current address with the record's own type, subdomain and ttl, whether or not the
\* updates succeed; then one refresh call, the last call; no create call; previous is
\* returned unchanged, without error.
C3_UpdateOnAddressChange ==
    (ListOk /\ ~FetchedMatch /\ PassPrevious # <<>>) =>
        LET ups == OfOp(calls, "update") IN
        /\ Len(ups) = Len(PassPrevious)
        /\ \A k \in 1..Len(ups) :
              /\ ups[k].id = PassPrevious[k].Id
              /\ ups[k].rec = [FieldType |-> PassPrevious[k].FieldType,
                               Subdomain |-> PassPrevious[k].Subdomain,
                               Target |-> PassIP,
                               Ttl |-> PassPrevious[k].Ttl]
        /\ Count("refresh") = 1
        /\ calls[Len(calls)].op = "refresh"
        /\ Count("create") = 0
        /\ ~PassErr
        /\ PassResult = PassPrevious
        /\ previousRecs[PassType] = PassPrevious

\* Two tracked records, one of them with a subdomain and a ttl, the address has changed,
\* and one of the two updates failed.
C3_Witness ==
    /\ ListOk /\ ~FetchedMatch /\ Len(PassPrevious) = 2
    /\ PassPrevious[1].Subdomain = "home" /\ PassPrevious[1].Ttl = 300
    /\ PassPrevious[1].Target # PassIP
    /\ Failed("update") /\ \E k \in 1..Len(calls) : calls[k].op = "update" /\ calls[k].ok

(* ------------------------------------------------------------------ C4  *)

\* C4: previous empty, listing succeeded, no fetched record matches, create and refresh
\* succeed: exactly one create call (family's type, empty subdomain, current address,
\* ttl 0), followed by exactly one refresh call; no update call; the empty state is
\* returned without error.
C4_CreateOnFirstMismatch ==
    (ListOk /\ ~FetchedMatch /\ PassPrevious = <<>> /\ ~Failed("create") /\ ~Failed("refresh")) =>
        /\ OfOp(calls, "create") =
              <<Call("create", 0, [FieldType |-> PassType, Subdomain |-> "",
                                    Target |-> PassIP, Ttl |-> 0], TRUE)>>
        /\ Count("refresh") = 1
        /\ calls[Len(calls)].op = "refresh"
        /\ calls[Len(calls) - 1].op = "create"
        /\ Count("update") = 0
        /\ ~PassErr
        /\ PassResult = <<>>
        /\ previousRecs[PassType] = <<>>
        /\ Published(zone, PassType, PassIP)

\* A record was created although the zone already held a record of the type, with
\* another target.
C4_Witness ==
    /\ ListOk /\ ~FetchedMatch /\ PassPrevious = <<>> /\ ~Failed("create") /\ ~Failed("refresh")
    /\ Count("fetch") = 1 /\ ~Failed("fetch")

(* ------------------------------------------------------------------ C5  *)

\* C5: when the listing call of a pass fails, the pass issues no fetch, create, update
\* or refresh call and returns an error; the family's stored state is what it was
\* before the tick, and the loop goes on to the next family or to the next wait.
C5_ListingFailure ==
    (Managed /\ ~calls[2].ok) =>
        /\ Len(calls) = 2
        /\ calls[2].op = "list"
        /\ PassErr
        /\ PassResult = <<>>
        /\ previousRecs[PassType] = PassPrevious
        /\ zone = zoneStart
        /\ pc = LoopNext(passFam).pc /\ fam = LoopNext(passFam).fam

\* The listing failed for a family that tracks a record.
C5_Witness ==
    /\ Managed /\ calls[2].op = "list" /\ ~calls[2].ok
    /\ PassPrevious # <<>>

(* ------------------------------------------------------------------ C6  *)

\* C6 as stated: ManageRecords returns an error if and only if the listing failed.
C6_ErrorOnlyFromListing ==
    Managed => (PassErr <=> ~ListOk)

\* C6 amended: ManageRecords returns an error if and only if the listing failed, or, in
\* the create branch, the create call or the zone refresh that follows it failed; a
\* failed fetch, a failed update and a failed refresh after the updates are logged only.
C6_ErrorFromListingOrCreateBranch ==
    Managed =>
        (PassErr <=>
            \/ ~ListOk
            \/ Failed("create")
            \/ (Count("create") = 1 /\ Failed("refresh")))

\* A pass without error in which a fetch, an update and the refresh after the updates
\* all failed.
C6_Witness ==
    /\ ListOk /\ ~PassErr
    /\ Failed("fetch") /\ Failed("update") /\ Failed("refresh")

(* ------------------------------------------------------------------ C7  *)

\* The for loop of a tick is over and the driver is back at the select.
TickDone == pc = "select" /\ \E f \in Families : outcome[f] # "none"

\* C7: at the end of a tick both families have been processed, whatever happened to the
\* other one: a family whose pass returned without error has the returned state stored,
\* a family whose resolution or pass failed has the state it had when the tick started.
C7_FamilyIsolation ==
    TickDone =>
        \A f \in Families :
            /\ outcome[f] # "none"
            /\ previousRecs[FieldTypes[f]] =
                  IF outcome[f] = "ok" THEN returned[f] ELSE tickStart[FieldTypes[f]]

\* The A family failed and, in the same tick, the AAAA family adopted a record.
C7_Witness ==
    /\ TickDone
    /\ outcome[1] \in {"noaddress", "managefail"} /\ outcome[2] = "ok"
    /\ previousRecs["AAAA"] # tickStart["AAAA"]

(* ------------------------------------------------------------------ C8  *)

\* C8: PollRecords asks for every listed id whatever fetches fail, returns no error, and
\* its result is exactly the successfully fetched records whose target is the current
\* address, in listing order, each with the id it was fetched by. Stated on the loop
\* (records after idx-1 ids) and on the finished pass (the adopted result, or the move
\* to the create or update branch when the result is empty).
C8_PartialFetchTolerance ==
    /\ pc = "fetch" =>
          /\ FetchIds = SubSeq(recordsIDs, 1, idx - 1)
          /\ records = MatchingOf(zone, recordsIDs, FetchOks, pubIP)
    /\ ListOk =>
          /\ FetchIds = listed
          /\ \A k \in 1..Count("fetch") :
                OfOp(calls, "fetch")[k].ok =>
                    OfOp(calls, "fetch")[k].rec = zoneStart[listed[k]]
          /\ LET m == MatchingOf(zoneStart, listed, FetchOks, PassIP) IN
             IF m # <<>> THEN ~PassErr /\ PassResult = m
             ELSE Count("create") + Count("update") >= 1

\* Two ids listed, the fetch of the first failed, the second was adopted.
C8_Witness ==
    /\ ListOk /\ Len(listed) = 2
    /\ ~OfOp(calls, "fetch")[1].ok /\ OfOp(calls, "fetch")[2].ok
    /\ Len(PassResult) = 1 /\ PassResult[1].Id = listed[2]

(* ------------------------------------------------------------------ C9  *)

InTick == pc \in {"resolve", "list", "fetch", "create", "refreshC", "update", "refreshU"}

\* C9: the driver leaves the loop only on the cancellation, from the select; a failed
\* resolution or pass sends it to the next family or back to the select.
C9_FailuresNeverStopLoop ==
    [][ /\ (pc' \in {"closing", "stopped"} /\ pc \notin {"closing", "stopped"}) =>
              (cancelled' /\ pc \in {"select", "wait"})
        /\ \A f \in Families :
              (outcome[f] = "none" /\ outcome'[f] \in {"noaddress", "managefail"}) =>
                  pc' \in {"resolve", "select"}
      ]_vars

\* Both families failed in a tick and the driver is back at the select, not cancelled.
C9_Witness ==
    /\ pc = "select" /\ ~cancelled
    /\ outcome[1] = "managefail" /\ outcome[2] = "noaddress"

(* ------------------------------------------------------------------ C10 *)

\* C10: the driver goes to its exit only from the select (polling or blocked), never
\* from inside a tick; a tick that has started leaves the for loop only with both
\* families processed.
C10_CancelOnlyAtTickBoundary ==
    [][ /\ (pc' = "closing" /\ pc # "closing") => pc \in {"select", "wait"}
        /\ pc' = "stopped" => pc \in {"closing", "stopped"}
        /\ InTick => (InTick' \/ pc' = "select")
        /\ (InTick /\ pc' = "select") => \A f \in Families : outcome'[f] # "none"
      ]_vars

\* The cancellation was delivered inside a tick (with a positive interval a tick only
\* starts uncancelled), and the driver is fetching records for the AAAA family.
C10_Witness ==
    /\ timeInterval > 0 /\ cancelled /\ pc = "fetch" /\ fam = 2

(* ------------------------------------------------------------------ C11 *)

StartupPcs == {"getDomain", "newClient", "connAttempt", "getInterval"}

\* main is in its for loop (at the select or inside a tick).
InLoop == pc \in {"select", "wait"} \/ InTick

\* The part of C11 about termination: once the cancellation is delivered to a process
\* that is in its loop, the driver reaches the return of main.
C11_CancelledEventuallyStops ==
    (cancelled /\ InLoop) ~> pc = "stopped"

\* C11: after the termination signal the driver eventually leaves its loop and main
\* returns, and it does so at the next tick boundary: once the driver is at the select
\* with the cancellation delivered, no new tick is started.
C11_CancelExitsAtNextBoundary ==
    /\ (cancelled /\ InLoop) ~> pc = "stopped"
    /\ [][(cancelled /\ pc = "select") => pc' # "resolve"]_vars

(* ------------------------------------------------------------------ C12 *)

\* A pass is in progress: its resolver call is in the log and its iteration has not ended.
PassOpen == calls # <<>> /\ calls[1].op = "resolve" /\ outcome[passFam] = "none"

\* The position from which the driver issues each kind of call.
IssuedAt(op) ==
    CASE op = "me" -> {"connAttempt"}
      [] op = "refresh" -> {"refreshC", "refreshU"}
      [] OTHER -> {op}

\* C12: every call is issued by the one driver goroutine, one call per step, from the
\* position of that call; a resolver call (the start of a family's pass) is issued only
\* when no pass is in progress, and every provider call of the loop belongs to the pass
\* in progress and to its family; the signal goroutine issues no call and leaves the
\* zone, the tracked state and the locals of the pass alone.
C12_NoConcurrentMutation ==
    [][ /\ gpc' # gpc => UNCHANGED <<zone, previousRecs, calls, passVars, fam, passFam>>
        /\ (calls' # calls /\ calls' # <<>>) =>
              LET c == calls'[Len(calls')] IN
              /\ gpc' = gpc
              /\ pc \in IssuedAt(c.op)
              /\ IF c.op = "resolve"
                 THEN /\ calls' = <<c>>
                      /\ ~PassOpen
                      /\ passFam' = fam
                 ELSE /\ calls' = Append(calls, c)
                      /\ c.op # "me" => (PassOpen /\ fam = passFam /\ passFam' = passFam)
      ]_vars

\* The signal goroutine has run while the AAAA pass of a tick was in progress, after the
\* A pass of the same tick had ended.
C12_Witness ==
    /\ gpc = "done" /\ PassOpen /\ passFam = 2 /\ pc = "update"
    /\ outcome[1] = "ok" /\ timeInterval > 0

(* ------------------------------------------------------------------ C13 *)

\* The pass found that its address is the target of no record of its type: the listing
\* and every fetch succeeded and no fetched record has the address as target.
FoundNoMatch == ListOk /\ ~Failed("fetch") /\ ~FetchedMatch

\* C13 (README, step 4): whenever a pass for the A records finds that the current
\* address is the target of none of them, the A records that exist in the zone are
\* updated with the address: one update call per existing A record, carrying the
\* address, whatever the tracked set is.
C13_ReadmeUpdatesExistingRecords ==
    (FoundNoMatch /\ PassType = "A") =>
        \A k \in 1..Len(listed) :
            \E j \in 1..Len(calls) :
                /\ calls[j].op = "update"
                /\ calls[j].id = listed[k]
                /\ calls[j].rec.Target = PassIP

(* ------------------------------------------------------------------ C14 *)

\* C14: the tracked state of both families is empty until the loop starts, and the
\* tracked state of a family changes only in the step in which a pass of ManageRecords
\* for that family returns without error and main stores the returned records; a failed
\* resolution and a pass that returns an error change no family's tracked state.
C14_StateChangesOnlyAtStoreBack ==
    [][ /\ pc \in StartupPcs =>
              \A t \in TypeSet : previousRecs[t] = <<>> /\ previousRecs'[t] = <<>>
        /\ \A t \in TypeSet :
              previousRecs'[t] # previousRecs[t] =>
                  /\ InTick /\ pc # "resolve"
                  /\ fieldType = t
                  /\ outcome[fam] = "none" /\ outcome'[fam] = "ok"
                  /\ previousRecs'[t] = returned'[fam]
        /\ \A f \in Families :
              (outcome[f] = "none" /\ outcome'[f] \in {"noaddress", "managefail"}) =>
                  previousRecs' = previousRecs
      ]_vars

\* In one tick the resolution failed for the A family, which kept its non-empty tracked
\* state, and the AAAA family stored the record its pass returned.
C14_Witness ==
    /\ TickDone
    /\ outcome[1] = "noaddress" /\ tickStart["A"] # <<>> /\ previousRecs["A"] = tickStart["A"]
    /\ outcome[2] = "ok" /\ tickStart["AAAA"] = <<>> /\ previousRecs["AAAA"] # <<>>

(* ------------------------------------------------------------------ C15 *)

\* C15: every record tracked under a field type has that field type, and every create
\* or update call of a pass (finished or in progress) carries the field type of the
\* family the pass is for; the listing by type returns only ids of records of the type.
C15_RecordTypeConsistency ==
    /\ \A t \in TypeSet : \A k \in 1..Len(previousRecs[t]) : previousRecs[t][k].FieldType = t
    /\ \A k \in 1..Len(calls) :
          calls[k].op \in {"create", "update"} => calls[k].rec.FieldType = FieldTypes[passFam]
    /\ pc = "fetch" => \A k \in 1..Len(recordsIDs) : zone[recordsIDs[k]].FieldType = fieldType

\* Both families track a record and the pass of the AAAA family has sent an update.
C15_Witness ==
    /\ PassDone /\ PassType = "AAAA" /\ Count("update") = 1
    /\ previousRecs["A"] # <<>> /\ previousRecs["AAAA"] # <<>>

(* ------------------------------------------------------------------ C16 *)

\* s is the decimal text of an integer: an optional sign, then one or more digits.
IsIntegerText(s) ==
    LET body == IF s # <<>> /\ Head(s) \in {"+", "-"} THEN Tail(s) ELSE s IN
    /\ body # <<>>
    /\ \A i \in 1..Len(body) : body[i] \in {"0", "1", "2", "3", "4", "5", "6", "7", "8", "9"}

DomainMissing == env["DOMAIN"] = <<>>
CredentialMissing ==
    \E k \in {"OVH_ENDPOINT", "OVH_APP_KEY", "OVH_APP_SECRET", "OVH_CONSUMER_KEY"} : env[k] = <<>>
ClientNotBuilt == env["OVH_ENDPOINT"] \notin KnownEndpoints
IntervalUnusable == env["TIME_INTERVAL"] = <<>> \/ ~IsIntegerText(env["TIME_INTERVAL"])
ConnFailed == \E k \in 1..Len(calls) : calls[k].op = "me" /\ ~calls[k].ok

\* C16: with DOMAIN, a credential or TIME_INTERVAL missing or empty, TIME_INTERVAL not
\* an integer, a client that cannot be built or a failed connectivity check, the process
\* never enters the loop: it stays in startup or has ended fatally, and no call other
\* than the connectivity check has been made; the startup step that meets the failure
\* ends the process fatally, and nothing happens after the fatal end.
C16_StartupFailFast ==
    /\ []( (DomainMissing \/ CredentialMissing \/ ClientNotBuilt \/ IntervalUnusable
              \/ ConnFailed) =>
             /\ pc \in StartupPcs \cup {"fatal"}
             /\ \A k \in 1..Len(calls) : calls[k].op = "me"
             /\ Len(calls) <= 1
             /\ outcome = NoOutcome )
    /\ [][ /\ pc' # pc =>
                /\ (pc = "getDomain" /\ DomainMissing) => pc' = "fatal"
                /\ (pc = "newClient" /\ (CredentialMissing \/ ClientNotBuilt)) => pc' = "fatal"
                /\ pc = "connAttempt" => (pc' = "fatal" <=> ConnFailed')
                /\ (pc = "getInterval" /\ IntervalUnusable) => pc' = "fatal"
           /\ pc # "fatal"
         ]_vars

\* The process ended fatally on a TIME_INTERVAL that is set but is no integer, after a
\* successful connectivity check.
C16_Witness ==
    /\ pc = "fatal" /\ calls # <<>> /\ ~ConnFailed
    /\ env["TIME_INTERVAL"] # <<>> /\ IntervalUnusable

(* ------------------------------------------------------------------ C17 *)

\* C17: whenever main is in its loop, domain is a non-empty string and the polling
\* interval is a positive number of seconds.
C17_LoopHasDomainAndPositiveInterval ==
    InLoop => (domain # <<>> /\ timeInterval > 0)

(* ------------------------------------------------------------------ C18 *)

\* C18: whenever a pass issues a create call for a family, the process has not created
\* a record for that family before and the family's tracked state has never been
\* non-empty.
C18_CreateOnlyForNeverKnownFamily ==
    [][ (pc = "create" /\ calls' # calls) =>
            (~created[fieldType] /\ ~tracked[fieldType]) ]_vars

(* ------------------------------------------------------------------ C19 *)

\* What the previous pass of the family of the finished pass created.
MadeBefore == madeStart[PassType]

\* The finished pass follows a pass of the same family that created a record, it
\* resolved the same address, its listing succeeded and so did its fetch of that record.
PicksUp ==
    /\ ListOk
    /\ MadeBefore.id # 0 /\ MadeBefore.ip = PassIP
    /\ \E k \in 1..Len(calls) :
          calls[k].op = "fetch" /\ calls[k].id = MadeBefore.id /\ calls[k].ok

\* C19: a pass that follows a pass of its family which created a record, resolves the
\* same address and lists and fetches the new record successfully issues no create,
\* update or refresh call, and the state stored after it contains the created record
\* (the family's type, empty subdomain, the address, ttl 0) under the id the provider
\* gave it.
C19_PickUpAfterCreation ==
    PicksUp =>
        /\ Count("create") = 0 /\ Count("update") = 0 /\ Count("refresh") = 0
        /\ ~PassErr
        /\ \E j \in 1..Len(previousRecs[PassType]) :
              previousRecs[PassType][j] =
                  [FieldType |-> PassType, Subdomain |-> "", Target |-> PassIP, Ttl |-> 0,
                   Id |-> MadeBefore.id]

\* The pass picked up the record the previous pass had created while the family tracked
\* nothing.
C19_Witness ==
    /\ PicksUp /\ PassPrevious = <<>> /\ Len(previousRecs[PassType]) = 1

(* ------------------------------------------------------------------ C20 *)

\* The log holds the calls of a pass, finished or in progress.
PassLog == calls # <<>> /\ calls[1].op = "resolve"

\* C20: a pass issues at most one create call and at most one refresh call, never both
\* a create and an update call; a refresh call directly follows a create call that
\* succeeded or the update call for the last tracked record, and it is issued only in a
\* pass whose listing succeeded and in which no fetched record matched the address.
C20_SideEffectBounds ==
    PassLog =>
        /\ Count("create") <= 1
        /\ Count("refresh") <= 1
        /\ ~(Count("create") >= 1 /\ Count("update") >= 1)
        /\ \A k \in 1..Len(calls) :
              calls[k].op = "refresh" =>
                  /\ k > 2
                  /\ \/ calls[k - 1].op = "create" /\ calls[k - 1].ok
                     \/ /\ calls[k - 1].op = "update"
                        /\ Len(OfOp(SubSeq(calls, 1, k - 1), "update")) =
                              Len(tickStart[FieldTypes[passFam]])
                        /\ calls[k - 1].id =
                              tickStart[FieldTypes[passFam]][Len(tickStart[FieldTypes[passFam]])].Id
                  /\ calls[2].op = "list" /\ calls[2].ok
                  /\ ~FetchedMatch
        /\ (Count("create") >= 1 \/ Count("update") >= 1) =>
              (calls[2].op = "list" /\ calls[2].ok /\ ~FetchedMatch)

\* A pass updated two tracked records and then refreshed the zone once.
C20_Witness ==
    /\ PassDone /\ Count("update") = 2 /\ Count("refresh") = 1
    /\ calls[Len(calls)].op = "refresh" /\ Failed("fetch")

(* ------------------------------------------------------------------ C21 *)

InPass == pc \in {"list", "fetch", "create", "refreshC", "update", "refreshU"}

\* C21: a tick starts with the first family and goes through the families in the order
\* of FieldTypes, each once: an iteration ends exactly once and is followed by the
\* resolver call of the next family or, after the last family, by the select. The
\* resolver is called once per family and tick, first in the family's log; provider
\* calls are issued only after a successful resolver call of the same family, with the
\* address it returned; after a failed resolver call the log of the family holds nothing
\* else.
C21_TickStructure ==
    /\ [](InPass =>
             /\ PassLog /\ calls[1].ok /\ passFam = fam
             /\ calls[1].rec.FieldType = fieldType
             /\ pubIP = calls[1].rec.Target
             /\ outcome[fam] = "none"
             /\ \A f \in Families : (outcome[f] # "none") <=> f < fam)
    /\ []((PassLog /\ ~calls[1].ok) => (Len(calls) = 1 /\ outcome[passFam] = "noaddress"))
    /\ [](PassLog => \A k \in 2..Len(calls) : calls[k].op \notin {"resolve", "me"})
    /\ [][ /\ (pc \in {"select", "wait"} /\ pc' = "resolve") => fam' = 1
           /\ (pc = "resolve" /\ pc' # pc) =>
                 /\ outcome[fam] = "none"
                 /\ \A f \in Families : (outcome[f] # "none") <=> f < fam
                 /\ calls' = <<calls'[1]>> /\ calls'[1].op = "resolve"
                 /\ calls'[1].rec.FieldType = fieldType
                 /\ passFam' = fam
                 /\ pc' = "list" \/ outcome'[fam] = "noaddress"
           /\ \A f \in Families :
                 (InTick /\ outcome[f] = "none" /\ outcome'[f] # "none") =>
                     /\ f = fam
                     /\ IF f < Len(FieldTypes) THEN pc' = "resolve" /\ fam' = f + 1
                        ELSE pc' = "select"
           /\ \A f \in Families :
                 (InTick /\ outcome[f] # "none") => outcome'[f] = outcome[f]
           /\ (InTick /\ InTick' /\ fam' # fam) => outcome'[fam] # "none"
         ]_vars

\* In one tick the resolver failed for the A family, and the pass of the AAAA family
\* is about to create a record with the address resolved for it.
C21_Witness ==
    /\ pc = "create" /\ fam = 2 /\ outcome[1] = "noaddress"
    /\ pubIP = calls[1].rec.Target /\ pubIP # ""

(* ------------------------------------------------------------------ C22 *)

\* C22: every tick is preceded by one completed interval wait: a tick starts only from
\* the driver blocked in the select, when the timer fires; the end of a tick leads back
\* to the select, where the next wait starts, whatever the outcomes of the tick were,
\* and the select is left only by blocking or by the exit.
C22_FixedIntervalPacing ==
    [][ /\ (~InTick /\ InTick') => pc = "wait"
        /\ (InTick /\ ~InTick') => pc' = "select"
        /\ pc = "select" => pc' \in {"select", "wait", "closing"}
      ]_vars

(* ------------------------------------------------------------------ C23 *)

\* C23: a family's tracked state, once non-empty, is never empty again (it is non-empty
\* exactly when it has ever been); no create call is issued for a family whose tracked
\* state is non-empty; a finished pass that started with a non-empty tracked state sent
\* no create, and its update calls, if any, went to the tracked ids in order, one each,
\* whether they succeeded or failed.
C23_TrackedStateMonotone ==
    /\ [](\A t \in TypeSet : tracked[t] <=> previousRecs[t] # <<>>)
    /\ []((PassDone /\ PassPrevious # <<>>) =>
             /\ Count("create") = 0
             /\ Count("update") \in {0, Len(PassPrevious)}
             /\ \A k \in 1..Count("update") :
                   OfOp(calls, "update")[k].id = PassPrevious[k].Id
             /\ previousRecs[PassType] # <<>>)
    /\ [][ /\ \A t \in TypeSet : previousRecs[t] # <<>> => previousRecs'[t] # <<>>
           /\ (pc = "create" /\ calls' # calls) =>
                 (previousRecs[fieldType] = <<>> /\ ~tracked[fieldType])
         ]_vars

\* A pass that started with a tracked record found no match, its update of the tracked
\* record failed, and the family still tracks the same record.
C23_Witness ==
    /\ PassDone /\ PassPrevious # <<>> /\ ListOk /\ ~FetchedMatch
    /\ Count("update") = Len(PassPrevious) /\ Failed("update")
    /\ previousRecs[PassType] = PassPrevious

(* ------------------------------------------------------------------ C24 *)

\* C24: all records tracked for a family carry the same target; whenever the tracked
\* state of a family changes, every record stored carries the address resolved in the
\* pass that stores it; a finished pass that took the update branch leaves the tracked
\* records, targets included, as they were when the tick started.
C24_TrackedTargetsUniform ==
    /\ [](\A t \in TypeSet : \A j, k \in 1..Len(previousRecs[t]) :
             previousRecs[t][j].Target = previousRecs[t][k].Target)
    /\ []((PassDone /\ Count("update") > 0) => previousRecs[PassType] = PassPrevious)
    /\ [][ \A t \in TypeSet :
              previousRecs'[t] # previousRecs[t] =>
                  /\ Count("update") = 0
                  /\ \A k \in 1..Len(previousRecs'[t]) :
                        previousRecs'[t][k].Target = pubIP /\ pubIP = calls[1].rec.Target
         ]_vars

\* A finished pass updated its tracked record in the zone to the new address, and the
\* tracked copy still carries the old one.
C24_Witness ==
    /\ PassDone /\ Count("update") = 1 /\ ~Failed("update")
    /\ Len(previousRecs[PassType]) = 1
    /\ zone[previousRecs[PassType][1].Id].Target = PassIP
    /\ previousRecs[PassType][1].Target # PassIP

(* ------------------------------------------------------------------ C25 *)

\* The HTTP exchanges the resolver of the family in progress can meet now.
Exchanges == UNION { Responses(addr) : addr \in CurrentAddrs(fieldType) }

\* C25: getPublicIP returns an address exactly when the HTTP call succeeded, the status
\* is 200, the body decoded and its "ip" field is non-empty, and then returns that
\* field; otherwise it returns an error and no address. The resolver call of a pass is
\* logged as successful exactly when it gave a non-empty address; while ManageRecords
\* runs its address is non-empty; no create or update call carries an empty target.
C25_ResolvedAddressNonEmpty ==
    /\ \A resp \in Exchanges :
          LET r == GetPublicIP(resp)
              good == resp.transport /\ resp.status = 200 /\ resp.decodes /\ resp.ip # ""
          IN /\ ~r.err <=> good
             /\ r.ip = IF good THEN resp.ip ELSE ""
    /\ PassLog => (calls[1].ok <=> calls[1].rec.Target # "")
    /\ InPass => pubIP # ""
    /\ \A k \in 1..Len(calls) :
          calls[k].op \in {"create", "update"} => calls[k].rec.Target # ""

\* A pass in which the resolver gave an address has sent a create call; an earlier
\* iteration of the tick ended on a resolver error.
C25_Witness ==
    /\ pc = "refreshC" /\ Count("create") = 1 /\ calls[1].ok
    /\ OfOp(calls, "create")[1].rec.Target = pubIP
    /\ outcome[1] = "noaddress"

(* ------------------------------------------- the earlier main (src/main.go) *)

\* The variables of the later main, which the earlier loop does not have.
laterVars == <<env, domain, stable, fixedIP, gpc, cancelled, timeInterval, pubIP, records, uidx,
               previousRecs, zoneStart, listed, passFam, outcome, returned, tickStart,
               created, tracked, recording, lastMade, madeStart>>

EarlyPcs == {"poll", "idToIP", "addRecord", "refresh", "ticker"}

\* NewRecord of the earlier variant: no subdomain is given, so it is empty.
EarlyNewRecord(ft, target, ttl) ==
    [FieldType |-> ft, Subdomain |-> "", Target |-> target, Ttl |-> ttl]

\* IDToIP: the target of the record behind id, or "" and an error.
IDToIP(z, id, ok) ==
    IF ok THEN [ip |-> z[id].Target, err |-> FALSE] ELSE [ip |-> "", err |-> TRUE]

\* slices.Contains
Contains(s, x) == \E k \in 1..Len(s) : s[k] = x

\* pubIPv4 in the IPv4 check, pubIPv6 in the IPv6 check.
EarlyPubIP == IF fam = 1 THEN pubIPv4 ELSE pubIPv6

\* What getPublicIP can have returned for type t; main only logs its error.
EarlyResolved(t) == UNION { {GetPublicIP(resp).ip : resp \in Responses(addr)} : addr \in Addrs(t) }

\* main is about to create the ticker: the client was built, GET /me succeeded and
\* TIME_INTERVAL was parsed; the two addresses hold what getPublicIP returned.
EarlyStart ==
    /\ recording = FALSE
    /\ env \in { e \in [EnvKeys -> UNION {EnvValues(k) : k \in EnvKeys}] :
                    /\ \A k \in EnvKeys : e[k] \in EnvValues(k) /\ ~GetEnv(e[k]).err
                    /\ ~NewOVHClient(e).err
                    /\ ~Atoi(e["TIME_INTERVAL"]).err }
    /\ timeInterval = Atoi(env["TIME_INTERVAL"]).n
    /\ domain = <<>>
    /\ zone \in UNION { [1..n -> InitRecords] : n \in 0..MaxInit }
    /\ stable = FALSE /\ fixedIP = NoAddress
    /\ gpc = "recv" /\ cancelled = FALSE
    /\ pc = "newTicker" /\ fam = 1
    /\ pubIP = "" /\ recordsIDs = <<>> /\ idx = 1 /\ records = <<>> /\ uidx = 1
    /\ previousRecs = [t \in TypeSet |-> <<>>]
    /\ calls = <<>> /\ zoneStart = <<>> /\ listed = <<>>
    /\ passFam = 1 /\ outcome = NoOutcome /\ returned = NoReturn
    /\ tickStart = [t \in TypeSet |-> <<>>]
    /\ created = [t \in TypeSet |-> FALSE] /\ tracked = [t \in TypeSet |-> FALSE]
    /\ lastMade = NoneMade /\ madeStart = NoneMade
    /\ pubIPv4 \in EarlyResolved("A") /\ pubIPv6 \in EarlyResolved("AAAA")
    /\ IPs = <<>> /\ tickerC = FALSE

\* ticker := time.NewTicker(...): it panics for a non-positive duration.
NewTicker ==
    /\ pc = "newTicker"
    /\ pc' = IF timeInterval <= 0 THEN "panic" ELSE "poll"
    /\ UNCHANGED <<laterVars, zone, fam, recordsIDs, idx, calls, earlyVars>>

\* The runtime sends a tick on ticker.C, which holds one tick; a tick that finds the
\* channel full is dropped.
TickerFire ==
    /\ pc \in EarlyPcs
    /\ ~tickerC
    /\ tickerC' = TRUE
    /\ UNCHANGED <<laterVars, zone, pc, fam, recordsIDs, idx, calls, pubIPv4, pubIPv6, IPs>>

\* The check of the next family, or the wait on the ticker after the IPv6 check.
EarlyDone ==
    /\ pc' = IF fam < Len(FieldTypes) THEN "poll" ELSE "ticker"
    /\ fam' = IF fam < Len(FieldTypes) THEN fam + 1 ELSE fam
    /\ recordsIDs' = <<>> /\ idx' = 1 /\ IPs' = <<>>

\* After PollRecords returned ips: slices.Contains, then addRecord or the next check.
AfterEarlyPoll(ips) ==
    IF Contains(ips, EarlyPubIP) THEN EarlyDone
    ELSE /\ pc' = "addRecord"
         /\ recordsIDs' = <<>> /\ idx' = 1 /\ IPs' = <<>>
         /\ UNCHANGED fam

\* PollRecords: the listing call; on its error main logs and continues, which starts
\* the loop body again, at the IPv4 check. calls holds the latest provider call since
\* the last tick was received.
EarlyList ==
    /\ pc = "poll"
    /\ \E ok \in BOOLEAN :
          /\ calls' = <<Call("list", 0, EarlyNewRecord(fieldType, "", 0), ok)>>
          /\ IF ~ok
             THEN /\ pc' = "poll" /\ fam' = 1
                  /\ recordsIDs' = <<>> /\ idx' = 1 /\ IPs' = <<>>
             ELSE LET ids == ListRecordIDs(zone, fieldType) IN
                  IF ids = <<>> THEN AfterEarlyPoll(<<>>)
                  ELSE /\ pc' = "idToIP"
                       /\ recordsIDs' = ids /\ idx' = 1 /\ IPs' = <<>>
                       /\ UNCHANGED fam
    /\ UNCHANGED <<laterVars, zone, pubIPv4, pubIPv6, tickerC>>

\* PollRecords: IDToIP for recordsIDs[idx]; a failed fetch is logged and skipped.
EarlyFetch ==
    /\ pc = "idToIP"
    /\ \E ok \in BOOLEAN :
          LET id == recordsIDs[idx]
              got == IDToIP(zone, id, ok)
              ips == IF got.err THEN IPs ELSE Append(IPs, got.ip)
          IN
          /\ calls' = <<Call("fetch", id, EarlyNewRecord(fieldType, got.ip, 0), ok)>>
          /\ IF idx < Len(recordsIDs)
             THEN /\ IPs' = ips /\ idx' = idx + 1
                  /\ UNCHANGED <<pc, fam, recordsIDs>>
             ELSE AfterEarlyPoll(ips)
    /\ UNCHANGED <<laterVars, zone, pubIPv4, pubIPv6, tickerC>>

\* addRecord: the POST of the new record.
EarlyAddRecord ==
    /\ pc = "addRecord"
    /\ LET rec == EarlyNewRecord(fieldType, EarlyPubIP, 0) IN
       \/ /\ calls' = <<Call("create", 0, rec, FALSE)>>
          /\ EarlyDone
          /\ UNCHANGED zone
       \/ \E id \in FreeIds :
          /\ calls' = <<Call("create", 0, rec, TRUE)>>
          /\ zone' = Put(zone, id, rec)
          /\ pc' = "refresh"
          /\ UNCHANGED <<fam, recordsIDs, idx, IPs>>
    /\ UNCHANGED <<laterVars, pubIPv4, pubIPv6, tickerC>>

\* addRecord: the refresh of the zone; main logs its error and goes on.
EarlyRefresh ==
    /\ pc = "refresh"
    /\ \E ok \in BOOLEAN :
          /\ calls' = <<Call("refresh", 0, ZeroRecord, ok)>>
          /\ EarlyDone
    /\ UNCHANGED <<laterVars, zone, pubIPv4, pubIPv6, tickerC>>

\* <-ticker.C: main receives the waiting tick and starts the loop body again.
TickerReceive ==
    /\ pc = "ticker"
    /\ tickerC
    /\ tickerC' = FALSE
    /\ pc' = "poll" /\ fam' = 1
    /\ calls' = <<>>
    /\ UNCHANGED <<laterVars, zone, recordsIDs, idx, pubIPv4, pubIPv6, IPs>>

EarlyLoop ==
    \/ EarlyList \/ EarlyFetch \/ EarlyAddRecord \/ EarlyRefresh \/ TickerReceive

EarlyNext == NewTicker \/ TickerFire \/ EarlyLoop

EarlySpec == EarlyStart /\ [][EarlyNext]_vars

(* ------------------------------------------------------------------ C26 *)

\* The latest provider call of the earlier loop is a listing that failed.
ListingJustFailed == calls # <<>> /\ calls[1].op = "list" /\ ~calls[1].ok

\* C26: in the earlier loop, after a failed listing no further provider call is issued
\* until the ticker has fired: a step that issues a provider call right after a failed
\* listing is taken only with a tick of the ticker waiting in ticker.C.
C26_ListingRetriedOnlyNextTick ==
    [][ (ListingJustFailed /\ calls' # calls /\ calls' # <<>>) => tickerC ]_vars

====
